---- MODULE Spec2Model ----
(***************************************************************************)
(* FlareProx local proxy server (src/flareprox.py, lines 1035-1252 and     *)
(* 1386-1414): endpoint selection, the request forwarder, the CONNECT      *)
(* tunnel relay and the threading listener.                                *)
(*                                                                         *)
(* Strings are modelled as sequences of tokens ("/", "http://", "?", ...)  *)
(* so that urlparse, parse_qs and quote are computed, not assumed.  The    *)
(* empty sequence stands for both None and "" (Python tests them alike     *)
(* with "if not x").                                                       *)
(***************************************************************************)
EXTENDS Integers, Sequences, FiniteSets, Bags, TLC

\* ---------------------------------------------------------------- bounds
MaxConn == 2
MaxReq == 2
MaxPool == 2
MaxRelay == 1
MaxRecv == 3
MaxChunk == 2
MaxPid == 2
MaxStart == 2

\* ------------------------------------------------------ token-level strings
Schemes == {"http://", "https://"}

Min(a, b) == IF a < b THEN a ELSE b

\* index of the first token of s that lies in S, 0 when there is none
FirstIdx(s, S) ==
  IF \E i \in 1..Len(s) : s[i] \in S
  THEN CHOOSE i \in 1..Len(s) : s[i] \in S /\ \A j \in 1..(i - 1) : s[j] \notin S
  ELSE 0

\* s[i:] of Python, i counted from 1
From(s, i) == IF i > Len(s) THEN <<>> ELSE SubSeq(s, i, Len(s))

\* urllib.parse.urlparse on a request-target: scheme, netloc, path, query
urlparse(url) ==
  LET hasScheme == Len(url) > 0 /\ url[1] \in Schemes
      rest == IF hasScheme THEN Tail(url) ELSE url
      nEnd == FirstIdx(rest, {"/", "?"})
      netloc == IF ~hasScheme THEN <<>>
                ELSE IF nEnd = 0 THEN rest ELSE SubSeq(rest, 1, nEnd - 1)
      tail == IF ~hasScheme THEN rest
              ELSE IF nEnd = 0 THEN <<>> ELSE From(rest, nEnd)
      q == FirstIdx(tail, {"?"})
  IN [scheme |-> IF ~hasScheme THEN ""
                 ELSE IF url[1] = "http://" THEN "http" ELSE "https",
      netloc |-> netloc,
      path |-> IF q = 0 THEN tail ELSE SubSeq(tail, 1, q - 1),
      query |-> IF q = 0 THEN <<>> ELSE From(tail, q + 1)]

\* urllib.parse.unquote_plus on one token
UnquoteTok(t) == IF t = "%41" THEN "A" ELSE IF t = "+" THEN " " ELSE t

Unquote(s) == [i \in 1..Len(s) |-> UnquoteTok(s[i])]

\* str.split(sep) on a token sequence: the sequence of fields
RECURSIVE Split(_, _)
Split(s, sep) ==
  LET i == FirstIdx(s, {sep})
  IN IF i = 0 THEN <<s>> ELSE <<SubSeq(s, 1, i - 1)>> \o Split(From(s, i + 1), sep)

\* urllib.parse.parse_qs(query).get(name, [None])[0]: fields are split on
\* "&", each on its first "=", blank values are dropped, names and values are
\* percent-decoded; the first value of the name, or <<>> for None
parse_qs_first(query, name) ==
  LET fields == Split(query, "&")
      Name(f) == LET e == FirstIdx(f, {"="})
                 IN IF e = 0 THEN <<>> ELSE Unquote(SubSeq(f, 1, e - 1))
      Value(f) == LET e == FirstIdx(f, {"="})
                  IN IF e = 0 THEN <<>> ELSE Unquote(From(f, e + 1))
      Hit(i) == Name(fields[i]) = <<name>> /\ Value(fields[i]) # <<>>
      k == IF \E i \in 1..Len(fields) : Hit(i)
           THEN CHOOSE i \in 1..Len(fields) : Hit(i) /\ \A j \in 1..(i - 1) : ~Hit(j)
           ELSE 0
  IN IF k = 0 THEN <<>> ELSE Value(fields[k])

\* urllib.parse.quote(s, safe='') on one token
QuoteTok(t) ==
  CASE t = "/" -> "%2F"
    [] t = "http://" -> "http%3A%2F%2F"
    [] t = "https://" -> "https%3A%2F%2F"
    [] t = "?" -> "%3F"
    [] t = "=" -> "%3D"
    [] t = "&" -> "%26"
    [] t = ":" -> "%3A"
    [] t = " " -> "%20"
    [] t = "+" -> "%2B"
    [] t = "%41" -> "%2541"
    [] OTHER -> t

quote(s) == [i \in 1..Len(s) |-> QuoteTok(s[i])]

\* str.lower() on a header name
Lower(k) ==
  CASE k = "X-Target-URL" -> "x-target-url"
    [] k = "Content-Length" -> "content-length"
    [] k = "Connection" -> "connection"
    [] k = "Host" -> "host"
    [] k = "Referer" -> "referer"
    [] k = "User-Agent" -> "user-agent"
    [] k = "CONNECTION" -> "connection"
    [] k = "Proxy-Connection" -> "proxy-connection"
    [] k = "Keep-Alive" -> "keep-alive"
    [] k = "Transfer-Encoding" -> "transfer-encoding"
    [] k = "Upgrade" -> "upgrade"
    [] k = "Content-Type" -> "content-type"
    [] k = "Content-Encoding" -> "content-encoding"
    [] k = "CONTENT-LENGTH" -> "content-length"
    [] k = "X-A" -> "x-a"
    [] OTHER -> k

\* self.headers.get(name): header names match case-insensitively, the first
\* occurrence wins, <<>> when absent
HeaderGet(hdrs, name) ==
  LET Hit(i) == Lower(hdrs[i][1]) = Lower(name)
  IN IF \E i \in 1..Len(hdrs) : Hit(i)
     THEN hdrs[CHOOSE i \in 1..Len(hdrs) : Hit(i) /\ \A j \in 1..(i - 1) : ~Hit(j)][2]
     ELSE <<>>

\* int(s): the decimal strings of the model
IsInt(s) == s \in {<<"0">>, <<"2">>, <<"80">>, <<"443">>}

IntOf(s) ==
  CASE s = <<"0">> -> 0
    [] s = <<"2">> -> 2
    [] s = <<"80">> -> 80
    [] s = <<"443">> -> 443
    [] OTHER -> 0

\* json.dumps of a flat object, as a token sequence
RECURSIVE JsonMembers(_)
JsonMembers(kv) ==
  IF kv = <<>> THEN <<>>
  ELSE <<kv[1][1], ":", kv[1][2]>>
       \o (IF Len(kv) > 1 THEN <<",">> ELSE <<>>) \o JsonMembers(Tail(kv))

JsonDumps(kv) == <<"{">> \o JsonMembers(kv) \o <<"}">>

\* the keys of a json.dumps result
JsonKeys(body) == {body[i] : i \in {j \in 1..Len(body) : j + 1 <= Len(body) /\ body[j + 1] = ":"}}

\* ------------------------------------------------------------------ inputs
ForwardMethods == {"GET", "HEAD", "POST", "PUT", "DELETE", "OPTIONS"}

\* request-targets of non-CONNECT requests
Targets ==
  { <<"/">>,
    <<"/", "?", "url", "=", "A">>,
    <<"/", "?", "url", "=", "%41">>,
    <<"/", "?", "url", "=">>,
    <<"/", "?", "foo", "=", "1">>,
    <<"/", "?", "url", "=", "https://", "h", "/", "x", "&", "foo", "=", "1">>,
    <<"/", "x", "?", "foo", "=", "1", "&", "url", "=", "A">>,
    <<"/", "http://", "h", "/", "x">>,
    <<"/", "https://", "h">>,
    <<"/", "https://", "h", "/", "x", "?", "url", "=", "A">>,
    <<"/", "https://", "h", "/", "x", "?", "foo", "=", "1">>,
    <<"http://", "h", "/", "x">>,
    <<"https://", "h", "/", "?", "url", "=", "A">>,
    <<"http://", "h", "/", "http://", "o", "/", "x">>,
    <<"http://">> }

\* request-targets of CONNECT requests
ConnectTargets ==
  { <<"h", ":", "443">>, <<"h">>, <<"h", ":", "x">>, <<"h", ":", "80", ":", "1">> }

TargetHeaders == { <<>>, << <<"X-Target-URL", <<"B">> >> >>, << <<"x-target-url", <<"B">> >> >> }

\* further header lines of a request: hop-by-hop headers in several
\* spellings, end-to-end headers, a header name given twice
ExtraHeaders ==
  { << <<"Connection", <<"keep-alive">> >>, <<"User-Agent", <<"ua">> >> >>,
    << <<"Host", <<"h">> >>, <<"CONNECTION", <<"close">> >>, <<"Upgrade", <<"ws">> >>,
       <<"Referer", <<"ref">> >> >>,
    << <<"Proxy-Connection", <<"keep-alive">> >>, <<"Keep-Alive", <<"5">> >>,
       <<"Transfer-Encoding", <<"chunked">> >>, <<"x-a", <<"1">> >> >>,
    << <<"X-A", <<"1">> >>, <<"X-A", <<"2">> >> >> }

\* the Content-Length or Transfer-Encoding header and the body bytes that
\* follow the request head (for a chunked body, the bytes of its chunks)
Payloads ==
  { [headers |-> <<>>, body |-> <<>>],
    [headers |-> << <<"Content-Length", <<"0">> >> >>, body |-> <<"b1", "b2">>],
    [headers |-> << <<"Content-Length", <<"2">> >> >>, body |-> <<"b1", "b2">>],
    [headers |-> << <<"Content-Length", <<"bad">> >> >>, body |-> <<>>],
    [headers |-> << <<"Transfer-Encoding", <<"chunked">> >> >>, body |-> <<"b1", "b2">>] }

Request(m, t, h, b) == [method |-> m, path |-> t, headers |-> h, body |-> b]

NoRequest == Request("", <<>>, <<>>, <<>>)

\* every request of the model
AllRequests ==
  { Request(m, t, x \o p.headers, p.body) :
      m \in ForwardMethods \cup {"PATCH"}, t \in Targets, x \in TargetHeaders, p \in Payloads }
  \cup { Request(m, <<"/", "?", "url", "=", "A">>, x, <<>>) :
           m \in {"GET", "POST"}, x \in ExtraHeaders }
  \cup { Request("CONNECT", t, <<>>, <<>>) : t \in ConnectTargets }
  \cup { Request("CONNECT", <<"h", ":", "443">>, <<>>, <<"e1">>) }

\* the requests the concurrent specification draws from
SampleRequests ==
  { Request("GET", <<"/">>, <<>>, <<>>),
    Request("GET", <<"/", "?", "url", "=", "A">>, <<>>, <<>>),
    Request("POST", <<"/", "?", "url", "=", "A">>, << <<"Content-Length", <<"bad">> >> >>, <<>>),
    Request("PATCH", <<"/", "?", "url", "=", "A">>, <<>>, <<>>),
    Request("CONNECT", <<"h", ":", "443">>, <<>>, <<>>),
    Request("CONNECT", <<"h">>, <<>>, <<>>) }

\* what the selected endpoint answers: status, headers, content
UpstreamResponses ==
  { [status |-> 200,
     headers |-> << <<"Content-Type", <<"text">> >>, <<"CONTENT-LENGTH", <<"9">> >>,
                    <<"Transfer-Encoding", <<"chunked">> >>, <<"X-A", <<"1">> >> >>,
     content |-> <<"r1", "r2">>],
    [status |-> 404,
     headers |-> << <<"Content-Encoding", <<"gzip">> >>, <<"Content-Length", <<"2">> >> >>,
     content |-> <<>>] }

NoResponse == [status |-> 0, headers |-> <<>>, content |-> <<>>]

WorkerUrls == <<"w1", "w2", "w3", "w4">>

\* the pools run_local_proxy may load: 0..MaxPool endpoints
Pools == { [i \in 1..n |-> [url |-> WorkerUrls[i]]] : n \in 0..MaxPool }

\* ------------------------------------------------------------------- state
VARIABLES
  server,      \* the listener: "starting", "serving", "closed", "failed", "killed"
  endpoints,   \* context["endpoints"]
  policy,      \* context["policy"]
  state,       \* context["state"]: <<>> when "idx" is unset, <<idx>> otherwise
  threads,     \* the handler threads alive, a bag of handler records
  nreq,        \* connections accepted so far
  nrelay,      \* recv calls the tunnels made so far
  hist,        \* the round-robin selections in the order they read the cursor
  serial,      \* no round-robin selection began while another was in progress
  sup          \* the supervisor's world: marker file, processes, last command

vars == <<server, endpoints, policy, state, threads, nreq, nrelay, hist, serial, sup>>

\* the handler of a request just accepted: where it is (pc), the request,
\* the locals of _forward (target, worker, uresp) and of _choose_endpoint
\* (idx), what it wrote to the client (sent), the access-log records it
\* printed (log), the outbound calls it made (calls), and the locals of
\* do_CONNECT: the upstream socket ("none", "open", "closed"), the
\* create_connection calls made, bytes_out, the readable sockets still to
\* serve in this round of select (rlist), and what the tunnel has delivered
\* so far: to_upstream by upstream.sendall, to_client by connection.sendall;
\* eof: the relay loop has seen a recv without data or an exception
Handler(r, entry) ==
  [pc |-> entry, req |-> r, target |-> <<>>, worker |-> "", idx |-> 0,
   uresp |-> NoResponse, sent |-> <<>>, log |-> <<>>, calls |-> <<>>,
   upstream |-> "none", dials |-> 0, bytes_out |-> 0, rlist |-> <<>>,
   to_upstream |-> <<>>, to_client |-> <<>>, eof |-> FALSE]

Threads == BagToSet(threads)

\* thread t takes a step and becomes t2
Becomes(t, t2) == threads' = (threads (-) SetToBag({t})) (+) SetToBag({t2})

\* the users that run commands and own processes
Users == {"owner", "guest"}

Pids == 1..MaxPid

\* the flags of a serve command line
NoFlags == [daemon |-> FALSE, foreground |-> FALSE]

\* nothing started: no marker file in the working directory, no process;
\* file: <<>> when flareprox_server.pid is absent, <<text>> otherwise;
\* procs: the owner of the process at each pid, "none" without one;
\* listener, stage, argv: the process that serves, how far it got ("none",
\* "spawned", "running", "exited") and the flags it was started with;
\* out, effects: what the last command printed and did, in order;
\* nstart: the background starts so far
NoSup ==
  [file |-> <<>>, procs |-> [p \in Pids |-> "none"], listener |-> 0,
   stage |-> "none", argv |-> NoFlags, out |-> "", effects |-> <<>>, nstart |-> 0]

\* serve without --daemon: the calling process is in run_local_proxy
ForegroundSup ==
  [NoSup EXCEPT !.procs[1] = "owner", !.listener = 1, !.stage = "running"]

\* run_local_proxy up to the server's construction
InitContext ==
  /\ server = "starting"
  /\ endpoints \in Pools
  /\ policy \in {"random", "roundrobin"}
  /\ state = <<>>
  /\ threads = EmptyBag
  /\ nreq = 0
  /\ nrelay = 0
  /\ hist = <<>>
  /\ serial = TRUE

Init == InitContext /\ sup = ForegroundSup

\* --------------------------------------------------------- Endpoint Pool
\* state.get("idx", 0)
StateGet(st) == IF st = <<>> THEN 0 ELSE st[1]

\* endpoints[idx % len(endpoints)].get("url")
RRPick(eps, i) == eps[(i % Len(eps)) + 1].url

\* mutant of RRNext: the cursor is stored without being advanced
RRNext_Stuck(eps, i) == i % Len(eps)

\* mutant of RRNext: the cursor is advanced without wrapping around
RRNext_NoWrap(eps, i) == i + 1

\* (idx + 1) % len(endpoints)
RRNext(eps, i) == (i + 1) % Len(eps)

\* ------------------------------------------------------- Request Forwarder
\* p.startswith("/http://") or p.startswith("/https://")
HasPathUrl(p) == Len(p) >= 2 /\ p[1] = "/" /\ p[2] \in Schemes

\* mutant of ExtractTarget: the url query parameter is looked at first
ExtractTarget_QueryFirst(rpath, hdrs) ==
  LET parsed == urlparse(rpath)
      p == parsed.path
      t1 == parse_qs_first(parsed.query, "url")
      t2 == IF t1 = <<>> /\ HasPathUrl(p) THEN Tail(p) ELSE t1
      t3 == IF t2 = <<>> /\ parsed.scheme \in {"http", "https"} /\ parsed.netloc # <<>>
            THEN rpath ELSE t2
      t4 == IF t3 = <<>> THEN HeaderGet(hdrs, "X-Target-URL") ELSE t3
  IN t4

\* mutant of ExtractTarget: X-Target-URL is looked at before the query
ExtractTarget_HeaderFirst(rpath, hdrs) ==
  LET parsed == urlparse(rpath)
      p == parsed.path
      t1 == IF HasPathUrl(p) THEN Tail(p) ELSE <<>>
      t2 == IF t1 = <<>> /\ parsed.scheme \in {"http", "https"} /\ parsed.netloc # <<>>
            THEN rpath ELSE t1
      t3 == IF t2 = <<>> THEN HeaderGet(hdrs, "X-Target-URL") ELSE t2
      t4 == IF t3 = <<>> THEN parse_qs_first(parsed.query, "url") ELSE t3
  IN t4

\* mutant of ExtractTarget: an absolute-form request-target is not a source
ExtractTarget_OriginOnly(rpath, hdrs) ==
  LET parsed == urlparse(rpath)
      p == parsed.path
      t1 == IF HasPathUrl(p) THEN Tail(p) ELSE <<>>
      t3 == IF t1 = <<>> THEN parse_qs_first(parsed.query, "url") ELSE t1
      t4 == IF t3 = <<>> THEN HeaderGet(hdrs, "X-Target-URL") ELSE t3
  IN t4

\* mutant of ExtractTarget: the leading slash of a path-embedded URL is kept
ExtractTarget_KeepSlash(rpath, hdrs) ==
  LET parsed == urlparse(rpath)
      p == parsed.path
      t1 == IF HasPathUrl(p) THEN p ELSE <<>>
      t2 == IF t1 = <<>> /\ parsed.scheme \in {"http", "https"} /\ parsed.netloc # <<>>
            THEN rpath ELSE t1
      t3 == IF t2 = <<>> THEN parse_qs_first(parsed.query, "url") ELSE t2
      t4 == IF t3 = <<>> THEN HeaderGet(hdrs, "X-Target-URL") ELSE t3
  IN t4

\* the target of a request: path-embedded URL, then absolute-form
\* request-target, then the url query parameter, then X-Target-URL
ExtractTarget(rpath, hdrs) ==
  LET parsed == urlparse(rpath)
      p == parsed.path
      t1 == IF HasPathUrl(p) THEN Tail(p) ELSE <<>>
      t2 == IF t1 = <<>> /\ parsed.scheme \in {"http", "https"} /\ parsed.netloc # <<>>
            THEN rpath ELSE t1
      t3 == IF t2 = <<>> THEN parse_qs_first(parsed.query, "url") ELSE t2
      t4 == IF t3 = <<>> THEN HeaderGet(hdrs, "X-Target-URL") ELSE t3
  IN t4

\* f"{worker}?url={quote(target, safe='')}"
UpstreamUrl(w, t) == <<w, "?", "url", "=">> \o quote(t)

ExcludedRequestHeaders ==
  {"host", "connection", "proxy-connection", "keep-alive", "transfer-encoding", "upgrade"}

\* d[k] = v on a dict kept as the sequence of its items: an existing key
\* keeps its place and takes the new value, a new key goes last
DictSet(d, k, v) ==
  IF \E i \in 1..Len(d) : d[i][1] = k
  THEN [i \in 1..Len(d) |-> IF d[i][1] = k THEN <<k, v>> ELSE d[i]]
  ELSE Append(d, <<k, v>>)

\* the loop of lines 1111-1114 over the first n header lines
RECURSIVE ForwardLoop(_, _)
ForwardLoop(hdrs, n) ==
  IF n = 0 THEN <<>>
  ELSE LET d == ForwardLoop(hdrs, n - 1)
           k == hdrs[n][1]
       IN IF Lower(k) \in ExcludedRequestHeaders THEN d ELSE DictSet(d, k, hdrs[n][2])

\* fwd_headers: a dict keyed by the header names as written
ForwardHeaders(hdrs) == ForwardLoop(hdrs, Len(hdrs))

\* int(self.headers.get("Content-Length", "0") or "0") does not raise
LengthParses(r) ==
  \/ r.method \in {"GET", "HEAD"}
  \/ HeaderGet(r.headers, "Content-Length") = <<>>
  \/ IsInt(HeaderGet(r.headers, "Content-Length"))

\* data: None for GET and HEAD, else the Content-Length bytes read from rfile
ForwardData(r) ==
  LET cl == HeaderGet(r.headers, "Content-Length")
      length == IF cl = <<>> THEN 0 ELSE IntOf(cl)
  IN IF r.method \in {"GET", "HEAD"} \/ length <= 0 THEN <<>>
     ELSE SubSeq(r.body, 1, Min(length, Len(r.body)))

Digits == <<"1", "2", "3", "4", "5", "6", "7", "8", "9", "10", "11", "12">>

\* str(n)
Str(n) == IF n = 0 THEN "0" ELSE Digits[n]

\* the status line, headers and body of an error answer of _forward
JsonReply(status, body) ==
  [status |-> status,
   headers |-> << <<"Content-Type", <<"application/json">> >>,
                  <<"Content-Length", <<Str(Len(body))>> >> >>,
   content |-> body]

NoTargetBody == JsonDumps(<< <<"error", "No target URL specified">> >>)

NoWorkerBody == JsonDumps(<< <<"error", "No worker endpoints available">> >>)

FailedBody == JsonDumps(<< <<"error", "Proxy request failed">>, <<"message", "str(e)">> >>)

\* mutant of RelayReply: the endpoint's own Content-Length is copied too
RelayReply_KeepsLength(r) ==
  LET Keep(kv) == Lower(kv[1]) \notin {"transfer-encoding", "content-encoding"}
  IN [status |-> r.status,
      headers |-> SelectSeq(r.headers, Keep) \o << <<"Content-Length", <<Str(Len(r.content))>> >> >>,
      content |-> r.content]

\* the answer relayed from the endpoint's response
RelayReply(r) ==
  LET Keep(kv) == Lower(kv[1]) \notin {"transfer-encoding", "content-encoding", "content-length"}
  IN [status |-> r.status,
      headers |-> SelectSeq(r.headers, Keep) \o << <<"Content-Length", <<Str(Len(r.content))>> >> >>,
      content |-> r.content]

\* _access_log(status, bytes_sent): one record printed
AccessLog(t, status, n) == [t EXCEPT !.log = Append(@, [status |-> status, bytes |-> n])]

\* an answer written to the client, then its access-log record, then return;
\* when the client is gone the write raises and the handler ends there
Answered(t, reply, clientOk) ==
  IF clientOk
  THEN [AccessLog(t, reply.status, Len(reply.content))
          EXCEPT !.sent = Append(@, reply), !.pc = "done"]
  ELSE [t EXCEPT !.pc = "crashed"]

\* ----------------------------------------------------- Connection Listener
\* the handler method BaseHTTPRequestHandler finds for the request's command
MethodEntry(m) ==
  IF m = "CONNECT" THEN "connect"
  ELSE IF m \in ForwardMethods THEN "forward"
  ELSE "unsupported"

\* mutant of ServerAfterHandlerError: the exception reaches serve_forever
ServerAfterHandlerError_Propagates(s) == "failed"

\* what an exception escaping a handler thread does to the listener: the
\* thread's handle_error reports it, serve_forever goes on
ServerAfterHandlerError(s) == s

\* thread t ends a step as t2, by a return or by an exception
Finish(t, t2) ==
  /\ Becomes(t, t2)
  /\ server' = IF t2.pc = "crashed" THEN ServerAfterHandlerError(server) ELSE server

\* http.server.ThreadingHTTPServer((host, port), handler)
Bind(ok) ==
  /\ server = "starting"
  /\ server' = IF ok THEN "serving" ELSE "failed"
  /\ UNCHANGED <<endpoints, policy, state, threads, nreq, nrelay, hist, serial, sup>>

\* KeyboardInterrupt in serve_forever, then server.server_close(); the
\* function returns, the process exits and its daemon handler threads with it
Interrupt ==
  /\ server = "serving"
  /\ server' = "closed"
  /\ threads' = EmptyBag
  /\ UNCHANGED <<endpoints, policy, state, nreq, nrelay, hist, serial, sup>>

\* mutant of AcceptFrom: a connection is accepted only when no handler runs
AcceptFrom_OneAtATime(r) ==
  /\ server = "serving"
  /\ threads = EmptyBag
  /\ nreq < MaxReq
  /\ nreq' = nreq + 1
  /\ threads' = threads (+) SetToBag({Handler(r, MethodEntry(r.method))})
  /\ UNCHANGED <<server, endpoints, policy, state, nrelay, hist, serial, sup>>

\* mutant of AcceptFrom: connections are accepted although the bind failed
AcceptFrom_Unbound(r) ==
  /\ server \in {"serving", "failed"}
  /\ BagCardinality(threads) < MaxConn
  /\ nreq < MaxReq
  /\ nreq' = nreq + 1
  /\ threads' = threads (+) SetToBag({Handler(r, MethodEntry(r.method))})
  /\ UNCHANGED <<server, endpoints, policy, state, nrelay, hist, serial, sup>>

\* mutant of AcceptFrom: connections are accepted after server_close
AcceptFrom_AfterClose(r) ==
  /\ server \in {"serving", "closed"}
  /\ BagCardinality(threads) < MaxConn
  /\ nreq < MaxReq
  /\ nreq' = nreq + 1
  /\ threads' = threads (+) SetToBag({Handler(r, MethodEntry(r.method))})
  /\ UNCHANGED <<server, endpoints, policy, state, nrelay, hist, serial, sup>>

\* serve_forever accepts a connection and starts its handler thread
AcceptFrom(r) ==
  /\ server = "serving"
  /\ BagCardinality(threads) < MaxConn
  /\ nreq < MaxReq
  /\ nreq' = nreq + 1
  /\ threads' = threads (+) SetToBag({Handler(r, MethodEntry(r.method))})
  /\ UNCHANGED <<server, endpoints, policy, state, nrelay, hist, serial, sup>>

Accept == \E r \in SampleRequests : AcceptFrom(r)

\* the first connection of a run, with any request of the model
AcceptAny == nreq = 0 /\ \E r \in AllRequests : AcceptFrom(r)

\* send_error(501) for a command without a do_ method: an HTML error page;
\* log_message is a no-op, so nothing is printed
Unsupported(t) ==
  /\ server = "serving"
  /\ t.pc = "unsupported"
  /\ Becomes(t, [t EXCEPT !.sent = Append(@, [status |-> 501,
                                              headers |-> << <<"Content-Type", <<"text/html">> >> >>,
                                              content |-> <<"Unsupported method">>]),
                          !.pc = "done"])
  /\ UNCHANGED <<server, endpoints, policy, state, nreq, nrelay, hist, serial, sup>>

\* the handler thread ends and its connection is closed
Release(t) ==
  /\ server = "serving"
  /\ t.pc \in {"done", "crashed"}
  /\ threads' = threads (-) SetToBag({t})
  /\ UNCHANGED <<server, endpoints, policy, state, nreq, nrelay, hist, serial, sup>>

\* ------------------------------------------------------------- _forward
\* lines 1069-1084: target extraction
Extract(t) ==
  /\ server = "serving"
  /\ t.pc = "forward"
  /\ LET tg == ExtractTarget(t.req.path, t.req.headers)
     IN Becomes(t, [t EXCEPT !.target = tg,
                             !.pc = IF tg = <<>> THEN "reply400" ELSE "choose"])
  /\ UNCHANGED <<server, endpoints, policy, state, nreq, nrelay, hist, serial, sup>>

\* mutant of Reply400: the rejected request has moved the cursor
Reply400_Selects(t, clientOk) ==
  /\ server = "serving"
  /\ t.pc = "reply400"
  /\ Finish(t, Answered(t, JsonReply(400, NoTargetBody), clientOk))
  /\ state' = <<StateGet(state) + 1>>
  /\ UNCHANGED <<endpoints, policy, nreq, nrelay, hist, serial, sup>>

\* lines 1086-1094
Reply400(t, clientOk) ==
  /\ server = "serving"
  /\ t.pc = "reply400"
  /\ Finish(t, Answered(t, JsonReply(400, NoTargetBody), clientOk))
  /\ UNCHANGED <<endpoints, policy, state, nreq, nrelay, hist, serial, sup>>

\* mutant of ChooseEmpty: the empty result is not checked, the call is built
ChooseEmpty_Proceeds(t) ==
  /\ server = "serving"
  /\ t.pc = "choose"
  /\ endpoints = <<>>
  /\ Becomes(t, [t EXCEPT !.worker = "", !.pc = "build"])
  /\ UNCHANGED <<server, endpoints, policy, state, nreq, nrelay, hist, serial, sup>>

\* _choose_endpoint with an empty pool: None
ChooseEmpty(t) ==
  /\ server = "serving"
  /\ t.pc = "choose"
  /\ endpoints = <<>>
  /\ Becomes(t, [t EXCEPT !.worker = "", !.pc = "reply503"])
  /\ UNCHANGED <<server, endpoints, policy, state, nreq, nrelay, hist, serial, sup>>

\* mutant of ChooseRandom: a random selection advances the cursor too
ChooseRandom_AdvancesCursor(t) ==
  /\ server = "serving"
  /\ t.pc = "choose"
  /\ endpoints # <<>>
  /\ policy # "roundrobin"
  /\ \E i \in 1..Len(endpoints) :
        Becomes(t, [t EXCEPT !.worker = endpoints[i].url, !.pc = "build"])
  /\ state' = <<RRNext(endpoints, StateGet(state))>>
  /\ UNCHANGED <<server, endpoints, policy, nreq, nrelay, hist, serial, sup>>

\* _choose_endpoint, random policy: random.choice(endpoints).get("url")
ChooseRandom(t) ==
  /\ server = "serving"
  /\ t.pc = "choose"
  /\ endpoints # <<>>
  /\ policy # "roundrobin"
  /\ \E i \in 1..Len(endpoints) :
        Becomes(t, [t EXCEPT !.worker = endpoints[i].url, !.pc = "build"])
  /\ UNCHANGED <<server, endpoints, policy, state, nreq, nrelay, hist, serial, sup>>

\* _choose_endpoint, round-robin, lines 1045-1046: read the cursor, pick
ChooseRead(t) ==
  /\ server = "serving"
  /\ t.pc = "choose"
  /\ endpoints # <<>>
  /\ policy = "roundrobin"
  /\ LET i == StateGet(state)
         w == RRPick(endpoints, i)
     IN /\ Becomes(t, [t EXCEPT !.idx = i, !.worker = w, !.pc = "rr_write"])
        /\ hist' = Append(hist, [idx |-> i, url |-> w])
  /\ serial' = (serial /\ \A d \in Threads : d.pc # "rr_write")
  /\ UNCHANGED <<server, endpoints, policy, state, nreq, nrelay, sup>>

\* _choose_endpoint, round-robin, line 1047: store the advanced cursor
ChooseWrite(t) ==
  /\ server = "serving"
  /\ t.pc = "rr_write"
  /\ state' = <<RRNext(endpoints, t.idx)>>
  /\ Becomes(t, [t EXCEPT !.pc = "build"])
  /\ UNCHANGED <<server, endpoints, policy, nreq, nrelay, hist, serial, sup>>

\* lines 1097-1105
Reply503(t, clientOk) ==
  /\ server = "serving"
  /\ t.pc = "reply503"
  /\ Finish(t, Answered(t, JsonReply(503, NoWorkerBody), clientOk))
  /\ UNCHANGED <<endpoints, policy, state, nreq, nrelay, hist, serial, sup>>

\* line 1118 raises ValueError: the handler ends without an answer
BuildError(t) ==
  /\ server = "serving"
  /\ t.pc = "build"
  /\ ~LengthParses(t.req)
  /\ Finish(t, [t EXCEPT !.pc = "crashed"])
  /\ UNCHANGED <<endpoints, policy, state, nreq, nrelay, hist, serial, sup>>

\* the outbound call of line 1123
OutboundCall(t) ==
  [method |-> t.req.method,
   url |-> UpstreamUrl(t.worker, t.target),
   headers |-> ForwardHeaders(t.req.headers),
   data |-> ForwardData(t.req)]

\* mutant of Call: a failed call is tried a second time
Call_Retries(t) ==
  /\ server = "serving"
  /\ t.pc = "build"
  /\ LengthParses(t.req)
  /\ \/ \E r \in UpstreamResponses :
          Becomes(t, [t EXCEPT !.calls = Append(@, OutboundCall(t)), !.uresp = r,
                               !.pc = "relay"])
     \/ Becomes(t, [t EXCEPT !.calls = Append(Append(@, OutboundCall(t)), OutboundCall(t)),
                             !.pc = "reply502"])
  /\ UNCHANGED <<server, endpoints, policy, state, nreq, nrelay, hist, serial, sup>>

\* lines 1107-1124: requests.request answers or raises RequestException
Call(t) ==
  /\ server = "serving"
  /\ t.pc = "build"
  /\ LengthParses(t.req)
  /\ \/ \E r \in UpstreamResponses :
          Becomes(t, [t EXCEPT !.calls = Append(@, OutboundCall(t)), !.uresp = r,
                               !.pc = "relay"])
     \/ Becomes(t, [t EXCEPT !.calls = Append(@, OutboundCall(t)), !.pc = "reply502"])
  /\ UNCHANGED <<server, endpoints, policy, state, nreq, nrelay, hist, serial, sup>>

\* lines 1125-1137
Relay(t, clientOk) ==
  /\ server = "serving"
  /\ t.pc = "relay"
  /\ Finish(t, Answered(t, RelayReply(t.uresp), clientOk))
  /\ UNCHANGED <<endpoints, policy, state, nreq, nrelay, hist, serial, sup>>

\* lines 1138-1145
Reply502(t, clientOk) ==
  /\ server = "serving"
  /\ t.pc = "reply502"
  /\ Finish(t, Answered(t, JsonReply(502, FailedBody), clientOk))
  /\ UNCHANGED <<endpoints, policy, state, nreq, nrelay, hist, serial, sup>>

\* ------------------------------------------------------------ do_CONNECT
\* mutant of ConnectTargetParses: the port is not converted
ConnectTargetParses_ColonOnly(tg) == FirstIdx(tg, {":"}) # 0

\* host, port_str = self.path.split(":", 1); port = int(port_str) succeeds
ConnectTargetParses(tg) ==
  LET i == FirstIdx(tg, {":"})
  IN i # 0 /\ IsInt(From(tg, i + 1))

\* an answer without headers or body: send_response(status); end_headers()
BareReply(status) == [status |-> status, headers |-> <<>>, content |-> <<>>]

\* lines 1166-1173: the target does not parse
ConnectBad(t, clientOk) ==
  /\ server = "serving"
  /\ t.pc = "connect"
  /\ ~ConnectTargetParses(t.req.path)
  /\ Finish(t, Answered(t, BareReply(400), clientOk))
  /\ UNCHANGED <<endpoints, policy, state, nreq, nrelay, hist, serial, sup>>

\* mutant of Dial: the tunnel takes its turn in the round-robin pool
Dial_ViaPool(t, dialOk, clientOk) ==
  /\ server = "serving"
  /\ t.pc = "connect"
  /\ ConnectTargetParses(t.req.path)
  /\ state' = <<StateGet(state) + 1>>
  /\ LET d == [t EXCEPT !.dials = @ + 1]
     IN IF dialOk
        THEN Finish(t, [d EXCEPT !.upstream = "open", !.pc = "establish"])
        ELSE Finish(t, Answered(d, BareReply(502), clientOk))
  /\ UNCHANGED <<endpoints, policy, nreq, nrelay, hist, serial, sup>>

\* mutant of Dial: a failed dial is not noticed
Dial_IgnoresFailure(t, dialOk, clientOk) ==
  /\ server = "serving"
  /\ t.pc = "connect"
  /\ ConnectTargetParses(t.req.path)
  /\ LET d == [t EXCEPT !.dials = @ + 1]
     IN IF dialOk
        THEN Finish(t, [d EXCEPT !.upstream = "open", !.pc = "establish"])
        ELSE Finish(t, [d EXCEPT !.pc = "establish"])
  /\ UNCHANGED <<endpoints, policy, state, nreq, nrelay, hist, serial, sup>>

\* lines 1175-1181: socket.create_connection((host, port), timeout=10)
Dial(t, dialOk, clientOk) ==
  /\ server = "serving"
  /\ t.pc = "connect"
  /\ ConnectTargetParses(t.req.path)
  /\ LET d == [t EXCEPT !.dials = @ + 1]
     IN IF dialOk
        THEN Finish(t, [d EXCEPT !.upstream = "open", !.pc = "establish"])
        ELSE Finish(t, Answered(d, BareReply(502), clientOk))
  /\ UNCHANGED <<endpoints, policy, state, nreq, nrelay, hist, serial, sup>>

\* line 1184: the success status line; when sendall raises, the finally
\* clause closes the upstream socket and the exception leaves the handler
Establish(t, clientOk) ==
  /\ server = "serving"
  /\ t.pc = "establish"
  /\ IF clientOk
     THEN Finish(t, [t EXCEPT !.sent = Append(@, BareReply(200)), !.pc = "select"])
     ELSE Finish(t, [t EXCEPT !.upstream = "closed", !.pc = "crashed"])
  /\ UNCHANGED <<endpoints, policy, state, nreq, nrelay, hist, serial, sup>>

\* mutant of SelectTimeout: the idle end is reported as a gateway timeout
SelectTimeout_AsError(t) ==
  /\ server = "serving"
  /\ t.pc = "select"
  /\ Becomes(t, [AccessLog(t, 504, 0) EXCEPT !.upstream = "closed", !.pc = "done"])
  /\ UNCHANGED <<server, endpoints, policy, state, nreq, nrelay, hist, serial, sup>>

\* mutant of SelectTimeout: the idle end closes the session without a record
SelectTimeout_NoLog(t) ==
  /\ server = "serving"
  /\ t.pc = "select"
  /\ Becomes(t, [t EXCEPT !.upstream = "closed", !.pc = "done"])
  /\ UNCHANGED <<server, endpoints, policy, state, nreq, nrelay, hist, serial, sup>>

\* lines 1190-1192 and 1207-1212: select times out, the loop breaks, the
\* finally clause closes the upstream socket, the session is logged
SelectTimeout(t) ==
  /\ server = "serving"
  /\ t.pc = "select"
  /\ Becomes(t, [AccessLog(t, 200, t.bytes_out) EXCEPT !.upstream = "closed", !.pc = "done"])
  /\ UNCHANGED <<server, endpoints, policy, state, nreq, nrelay, hist, serial, sup>>

\* line 1190: select returns the readable sockets, in the order of its input;
\* limit caps the recv calls of a run
SelectReadyWithin(t, limit) ==
  /\ server = "serving"
  /\ t.pc = "select"
  /\ nrelay < limit
  /\ \E rl \in {<<"client">>, <<"upstream">>, <<"client", "upstream">>} :
        Becomes(t, [t EXCEPT !.rlist = rl, !.pc = "recv"])
  /\ UNCHANGED <<server, endpoints, policy, state, nreq, nrelay, hist, serial, sup>>

SelectReady(t) == SelectReadyWithin(t, MaxRelay)

\* the bytes the client's socket yields to recv: those that arrived after
\* the request head (the head's own segment was read through rfile)
ClientSocketBytes(from, n) == [j \in 1..n |-> <<"c", from + j>>]

\* the bytes the upstream socket yields to recv
UpstreamSocketBytes(from, n) == [j \in 1..n |-> <<"u", from + j>>]

\* data = s.recv(8192) for the socket s served now, n bytes long; while the
\* session lasts every byte received has been delivered
RecvResult(t, n) ==
  IF Head(t.rlist) = "client"
  THEN ClientSocketBytes(Len(t.to_upstream), n)
  ELSE UpstreamSocketBytes(Len(t.to_client), n)

\* the tunnel after delivering data to the side opposite to the socket read
Delivered(t, data) ==
  IF Head(t.rlist) = "client"
  THEN [t EXCEPT !.to_upstream = @ \o data]
  ELSE [t EXCEPT !.to_client = @ \o data]

\* lines 1194-1202: recv returns n bytes and sendall to the other side works
RecvData(t, n) ==
  /\ server = "serving"
  /\ t.pc = "recv"
  /\ nrelay' = nrelay + 1
  /\ Becomes(t, [Delivered(t, RecvResult(t, n))
                   EXCEPT !.bytes_out = IF Head(t.rlist) = "upstream" THEN @ + n ELSE @,
                          !.rlist = Tail(@),
                          !.pc = IF Tail(t.rlist) = <<>> THEN "select" ELSE "recv"])
  /\ UNCHANGED <<server, endpoints, policy, state, nreq, hist, serial, sup>>

\* the end of a session by an exception in the loop, lines 1203-1206: the
\* upstream socket is closed, the session is logged, the handler returns
SessionEnd(t) ==
  [AccessLog(t, 200, t.bytes_out)
     EXCEPT !.eof = TRUE, !.upstream = "closed", !.rlist = <<>>, !.pc = "done"]

\* mutant of RecvEnd: the loop goes on to the next readable socket
RecvEnd_KeepsRelaying(t) ==
  /\ server = "serving"
  /\ t.pc = "recv"
  /\ nrelay' = nrelay + 1
  /\ Becomes(t, [t EXCEPT !.eof = TRUE, !.rlist = Tail(@),
                          !.pc = IF Tail(t.rlist) = <<>> THEN "select" ELSE "recv"])
  /\ UNCHANGED <<server, endpoints, policy, state, nreq, hist, serial, sup>>

\* lines 1196-1197 and 1203-1206: recv returns no data, or recv raises
RecvEnd(t) ==
  /\ server = "serving"
  /\ t.pc = "recv"
  /\ nrelay' = nrelay + 1
  /\ Becomes(t, SessionEnd(t))
  /\ UNCHANGED <<server, endpoints, policy, state, nreq, hist, serial, sup>>

\* lines 1198-1206: recv returns n bytes, sendall on the non-blocking socket
\* raises after k < n of them went out; bytes_out is not advanced
SendFail(t, n, k) ==
  /\ server = "serving"
  /\ t.pc = "recv"
  /\ k < n
  /\ nrelay' = nrelay + 1
  /\ Becomes(t, SessionEnd(Delivered(t, SubSeq(RecvResult(t, n), 1, k))))
  /\ UNCHANGED <<server, endpoints, policy, state, nreq, hist, serial, sup>>

\* ------------------------------------------------------------ specifications
Forward(t) ==
  \/ Extract(t)
  \/ \E ok \in BOOLEAN : Reply400(t, ok)
  \/ ChooseEmpty(t)
  \/ ChooseRandom(t)
  \/ ChooseRead(t)
  \/ ChooseWrite(t)
  \/ \E ok \in BOOLEAN : Reply503(t, ok)
  \/ BuildError(t)
  \/ Call(t)
  \/ \E ok \in BOOLEAN : Relay(t, ok)
  \/ \E ok \in BOOLEAN : Reply502(t, ok)

\* do_CONNECT with at most limit recv calls in a run, each of at most
\* maxn bytes
TunnelWithin(t, limit, maxn) ==
  \/ \E ok \in BOOLEAN : ConnectBad(t, ok)
  \/ \E d, ok \in BOOLEAN : Dial(t, d, ok)
  \/ \E ok \in BOOLEAN : Establish(t, ok)
  \/ SelectTimeout(t)
  \/ SelectReadyWithin(t, limit)
  \/ \E n \in 1..maxn : RecvData(t, n)
  \/ RecvEnd(t)
  \/ \E n \in 1..maxn : \E k \in 0..(n - 1) : SendFail(t, n, k)

Tunnel(t) == TunnelWithin(t, MaxRelay, 1)

Serve ==
  \/ \E t \in Threads : Unsupported(t)
  \/ \E t \in Threads : Forward(t)
  \/ \E t \in Threads : Tunnel(t)
  \/ \E t \in Threads : Release(t)

Next ==
  \/ \E ok \in BOOLEAN : Bind(ok)
  \/ Interrupt
  \/ Accept
  \/ Serve

\* the server under concurrent connections
Spec == Init /\ [][Next]_vars

NextOne ==
  \/ \E ok \in BOOLEAN : Bind(ok)
  \/ AcceptAny
  \/ Serve

\* one connection, every request of the model
SpecOne == Init /\ [][NextOne]_vars

\* the CONNECT requests of the model
ConnectRequests == { r \in AllRequests : r.method = "CONNECT" }

AcceptConnect == nreq = 0 /\ \E r \in ConnectRequests : AcceptFrom(r)

NextTunnel ==
  \/ \E ok \in BOOLEAN : Bind(ok)
  \/ AcceptConnect
  \/ \E t \in Threads : TunnelWithin(t, MaxRecv, MaxChunk)
  \/ \E t \in Threads : Release(t)

\* one CONNECT session, several rounds of the relay loop
SpecTunnel == Init /\ [][NextTunnel]_vars

\* a handler thread that can take a step of do_CONNECT takes one: the thread
\* is scheduled, select returns within its timeout, recv is called on a
\* readable socket only, sendall on a non-blocking socket returns or raises
TunnelFairness == WF_vars(\E t \in Threads : TunnelWithin(t, MaxRecv, MaxChunk))

\* one CONNECT session whose handler keeps being scheduled; the peers make
\* at most MaxRecv reads succeed before they close or fall silent
SpecTunnelLive == Init /\ [][NextTunnel]_vars /\ TunnelFairness

\* -------------------------------------------------------------- supervisor
\* _write_pid: the marker file after writing str(pid)
write_pid(pid) == <<Str(pid)>>

\* int(text.strip()): <<n>>, or <<>> when int raises
ParseInt(text) ==
  IF \E n \in 0..Len(Digits) : Str(n) = text
  THEN <<CHOOSE n \in 0..Len(Digits) : Str(n) = text>>
  ELSE <<>>

\* mutant of read_pid: an absent marker reads as pid 1
read_pid_Default(file) == IF file = <<>> THEN <<1>> ELSE ParseInt(file[1])

\* _read_pid: <<>> for None, <<pid>> otherwise
read_pid(file) == IF file = <<>> THEN <<>> ELSE ParseInt(file[1])

\* "not pid": None or 0
NotPid(pid) == pid = <<>> \/ pid[1] = 0

\* _remove_pid
remove_pid(file) == <<>>

\* os.kill(pid, sig) called by user u: "ok", or the errno it raises
Kill(procs, u, pid) ==
  IF pid \notin DOMAIN procs \/ procs[pid] = "none" THEN "ESRCH"
  ELSE IF procs[pid] # u THEN "EPERM"
  ELSE "ok"

\* line 1387: which branch of serve the flags select
ServeMode(args) == IF args.daemon /\ ~args.foreground THEN "spawn" ELSE "run"

\* line 1388: the flags of the command line given to Popen
ChildArgs == [daemon |-> FALSE, foreground |-> TRUE]

\* one thing a command did
Effect(op, pid) == [op |-> op, pid |-> pid]

\* the process at pid p is alive and is the one that serves
IsListener(p) == p = sup.listener /\ sup.stage \in {"spawned", "running"}

\* the process at pid p ends by a signal: nothing of it runs any more
Terminated(p) ==
  /\ server' = IF IsListener(p) THEN "killed" ELSE server
  /\ threads' = IF IsListener(p) THEN EmptyBag ELSE threads

\* mutant of StartBackground: the parent records its own pid
StartBackground_OwnPid(u, args) ==
  /\ ServeMode(args) = "spawn"
  /\ sup.nstart < MaxStart
  /\ \E p \in Pids : \E q \in Pids \ {p} :
       /\ sup.procs[p] = "none"
       /\ sup' = [sup EXCEPT !.procs[p] = u, !.listener = p, !.stage = "spawned",
                             !.nstart = @ + 1, !.argv = ChildArgs, !.file = write_pid(q),
                             !.out = "Server started in background",
                             !.effects = <<Effect("spawn", p), Effect("write", q),
                                           Effect("return", 0)>>]
  /\ server' = "starting"
  /\ threads' = EmptyBag
  /\ UNCHANGED <<endpoints, policy, state, nreq, nrelay, hist, serial>>

\* mutant of StartBackground: a marker already there is left as it is
StartBackground_KeepsMarker(u, args) ==
  /\ ServeMode(args) = "spawn"
  /\ sup.nstart < MaxStart
  /\ \E p \in Pids :
       /\ sup.procs[p] = "none"
       /\ sup' = [sup EXCEPT !.procs[p] = u, !.listener = p, !.stage = "spawned",
                             !.nstart = @ + 1, !.argv = ChildArgs,
                             !.file = IF @ = <<>> THEN write_pid(p) ELSE @,
                             !.out = "Server started in background",
                             !.effects = <<Effect("spawn", p), Effect("write", p),
                                           Effect("return", 0)>>]
  /\ server' = "starting"
  /\ threads' = EmptyBag
  /\ UNCHANGED <<endpoints, policy, state, nreq, nrelay, hist, serial>>

\* lines 1387-1392: serve --daemon spawns the script again with
\* --foreground, writes the child's pid and returns, whatever was started
\* before; from here on listener, stage, server and threads describe the
\* new child, a process started earlier is only kept in procs
StartBackground(u, args) ==
  /\ ServeMode(args) = "spawn"
  /\ sup.nstart < MaxStart
  /\ \E p \in Pids :
       /\ sup.procs[p] = "none"
       /\ sup' = [sup EXCEPT !.procs[p] = u, !.listener = p, !.stage = "spawned",
                             !.nstart = @ + 1, !.argv = ChildArgs, !.file = write_pid(p),
                             !.out = "Server started in background",
                             !.effects = <<Effect("spawn", p), Effect("write", p),
                                           Effect("return", 0)>>]
  /\ server' = "starting"
  /\ threads' = EmptyBag
  /\ UNCHANGED <<endpoints, policy, state, nreq, nrelay, hist, serial>>

\* line 1393: otherwise the calling process, at some pid, enters
\* run_local_proxy
StartForeground(u, args) ==
  /\ sup.stage = "none"
  /\ server = "starting"
  /\ ServeMode(args) = "run"
  /\ \E p \in Pids :
       /\ sup.procs[p] = "none"
       /\ sup' = [sup EXCEPT !.procs[p] = u, !.listener = p, !.stage = "running",
                             !.argv = args, !.out = "",
                             !.effects = <<Effect("run", p)>>]
  /\ UNCHANGED <<server, endpoints, policy, state, threads, nreq, nrelay, hist, serial>>

\* the spawned child runs main with its flags and enters run_local_proxy
ChildMain ==
  /\ sup.stage = "spawned"
  /\ ServeMode(sup.argv) = "run"
  /\ sup' = [sup EXCEPT !.stage = "running"]
  /\ UNCHANGED <<server, endpoints, policy, state, threads, nreq, nrelay, hist, serial>>

\* the serving process constructs its server
ListenerBind(ok) == sup.stage = "running" /\ Bind(ok)

\* the serving process is interrupted in serve_forever
ListenerInterrupt == sup.stage = "running" /\ Interrupt

\* run_local_proxy returned or raised: main returns and the process exits
ListenerExit ==
  /\ sup.stage = "running"
  /\ server \in {"closed", "failed"}
  /\ sup' = [sup EXCEPT !.procs[sup.listener] = "none", !.stage = "exited"]
  /\ UNCHANGED <<server, endpoints, policy, state, threads, nreq, nrelay, hist, serial>>

\* mutant of Stop: the marker is removed before the signal is sent
Stop_RemovesFirst(u) ==
  LET pid == read_pid(sup.file) IN
  /\ IF NotPid(pid)
     THEN /\ sup' = [sup EXCEPT !.out = "No PID file found", !.effects = <<>>]
          /\ UNCHANGED <<server, threads>>
     ELSE IF Kill(sup.procs, u, pid[1]) = "ok"
     THEN /\ sup' = [sup EXCEPT !.procs[pid[1]] = "none",
                                !.stage = IF IsListener(pid[1]) THEN "exited" ELSE @,
                                !.file = remove_pid(@),
                                !.out = "Server stopped",
                                !.effects = <<Effect("unlink", 0),
                                              Effect("SIGTERM", pid[1])>>]
          /\ Terminated(pid[1])
     ELSE /\ sup' = [sup EXCEPT !.out = "Failed to stop server",
                                !.file = remove_pid(@),
                                !.effects = <<Effect("unlink", 0),
                                              Effect("SIGTERM", pid[1])>>]
          /\ UNCHANGED <<server, threads>>
  /\ UNCHANGED <<endpoints, policy, state, nreq, nrelay, hist, serial>>

\* lines 1394-1404: serve-stop run by user u
Stop(u) ==
  LET pid == read_pid(sup.file) IN
  /\ IF NotPid(pid)
     THEN /\ sup' = [sup EXCEPT !.out = "No PID file found", !.effects = <<>>]
          /\ UNCHANGED <<server, threads>>
     ELSE IF Kill(sup.procs, u, pid[1]) = "ok"
     THEN /\ sup' = [sup EXCEPT !.procs[pid[1]] = "none",
                                !.stage = IF IsListener(pid[1]) THEN "exited" ELSE @,
                                !.file = remove_pid(@),
                                !.out = "Server stopped",
                                !.effects = <<Effect("SIGTERM", pid[1]),
                                              Effect("unlink", 0)>>]
          /\ Terminated(pid[1])
     ELSE /\ sup' = [sup EXCEPT !.out = "Failed to stop server",
                                !.effects = <<Effect("SIGTERM", pid[1])>>]
          /\ UNCHANGED <<server, threads>>
  /\ UNCHANGED <<endpoints, policy, state, nreq, nrelay, hist, serial>>

\* lines 1405-1414: serve-status run by user u
Status(u) ==
  LET pid == read_pid(sup.file) IN
  /\ sup' = [sup EXCEPT
       !.out = IF NotPid(pid) THEN "Server not running"
               ELSE IF Kill(sup.procs, u, pid[1]) = "ok" THEN "Server running"
               ELSE "PID file exists but process not running",
       !.effects = IF NotPid(pid) THEN <<>> ELSE <<Effect("signal 0", pid[1])>>]
  /\ UNCHANGED <<server, endpoints, policy, state, threads, nreq, nrelay, hist, serial>>

\* the process at pid p is killed from outside
Killed(p) ==
  /\ sup.procs[p] # "none"
  /\ sup' = [sup EXCEPT !.procs[p] = "none",
                        !.stage = IF IsListener(p) THEN "exited" ELSE @]
  /\ Terminated(p)
  /\ UNCHANGED <<endpoints, policy, state, nreq, nrelay, hist, serial>>

\* the system gives the free pid p to an unrelated process of user u
Reuse(p, u) ==
  /\ sup.procs[p] = "none"
  /\ sup' = [sup EXCEPT !.procs[p] = u]
  /\ UNCHANGED <<server, endpoints, policy, state, threads, nreq, nrelay, hist, serial>>

\* the flags a serve command can carry
ServeFlags == [daemon : BOOLEAN, foreground : BOOLEAN]

NextSup ==
  \/ \E u \in Users : \E args \in ServeFlags : StartBackground(u, args)
  \/ \E u \in Users : \E args \in ServeFlags : StartForeground(u, args)
  \/ ChildMain
  \/ \E ok \in BOOLEAN : ListenerBind(ok)
  \/ ListenerInterrupt
  \/ ListenerExit
  \/ \E u \in Users : Stop(u)
  \/ \E u \in Users : Status(u)
  \/ \E p \in Pids : Killed(p)
  \/ \E p \in Pids : \E u \in Users : Reuse(p, u)

\* before any command: nothing started, no marker
InitSup == InitContext /\ sup = NoSup

\* the commands serve, serve-stop and serve-status in one working directory
SpecSup == InitSup /\ [][NextSup]_vars

\* ------------------------------------------------------------------ claims
\* the status of the last answer thread t wrote
LastStatus(t) == t.sent[Len(t.sent)].status

\* the body of the last answer thread t wrote
LastBody(t) == t.sent[Len(t.sent)].content

\* the request went to _forward
Forwarded(t) == t.req.method \in ForwardMethods

\* the value of the request's non-empty query parameter url, <<>> without one
QueryUrl(r) == parse_qs_first(urlparse(r.path).query, "url")

\* the request's path begins with /http:// or /https://
PathEmbedded(r) == Len(r.path) >= 2 /\ r.path[1] = "/" /\ r.path[2] \in Schemes

\* the request's path (the request-target up to "?") without its leading slash
PathUrl(r) ==
  LET q == FirstIdx(r.path, {"?"})
  IN SubSeq(r.path, 2, IF q = 0 THEN Len(r.path) ELSE q - 1)

\* the request-target is in absolute form: http(s)://host...
AbsoluteForm(r) ==
  Len(r.path) >= 2 /\ r.path[1] \in Schemes /\ r.path[2] \notin {"/", "?"}

\* the value of the request's X-Target-URL header, <<>> without one
TargetHeader(r) == HeaderGet(r.headers, "X-Target-URL")

\* C1: round-robin selection is atomic under concurrency: the k selections
\* made so far observed the cursor values 0, 1, ..., k-1 (mod n), each once
\* per round, and once no selection is in progress the cursor is k mod n.
C1_AtomicCursor ==
  (server = "serving" /\ policy = "roundrobin" /\ endpoints # <<>>) =>
    /\ \A i \in 1..Len(hist) : hist[i].idx = (i - 1) % Len(endpoints)
    /\ (\A t \in Threads : t.pc # "rr_write") =>
         StateGet(state) = Len(hist) % Len(endpoints)

\* C2: round-robin selections made one after another on a freshly started
\* server return pool[0], pool[1], ... in cyclic order: the i-th selection
\* (from 0) returns pool[i mod n].
C2_SerialCyclicOrder ==
  (serial /\ endpoints # <<>>) =>
    \A i \in 1..Len(hist) : hist[i].url = endpoints[((i - 1) % Len(endpoints)) + 1].url

\* two selections one after the other on a pool of two
C2_Witness ==
  /\ serial
  /\ Len(endpoints) = 2
  /\ Len(hist) = 2
  /\ \A t \in Threads : t.pc # "rr_write"

\* C3: with an empty pool the selection returns no endpoint under either
\* policy, without raising, and a forwarded request with a target URL is
\* answered 503 without any outbound call.
C3_EmptyPool503 ==
  endpoints = <<>> =>
    \A t \in Threads :
      /\ t.calls = <<>>
      /\ t.worker = ""
      /\ t.pc \notin {"rr_write", "build", "relay", "reply502"}
      /\ (Forwarded(t) /\ t.target # <<>> /\ t.pc = "done") =>
           (Len(t.sent) = 1 /\ LastStatus(t) = 503)

\* a request with a target answered 503 on an empty round-robin pool
C3_Witness ==
  /\ endpoints = <<>>
  /\ policy = "roundrobin"
  /\ \E t \in Threads :
       Forwarded(t) /\ t.target # <<>> /\ t.pc = "done" /\ LastStatus(t) = 503

\* C4: every request or CONNECT session handled to completion has emitted
\* exactly one access-log record, never zero and never two.
C4_ExactlyOneLog ==
  \A t \in Threads :
    /\ Len(t.log) <= 1
    /\ t.pc = "done" => Len(t.log) = 1

\* a step of at most one handler: one thread changes, starts or ends
OneHandlerStep ==
  \/ threads' = threads
  \/ \E t \in Threads : threads' = threads (-) SetToBag({t})
  \/ \E t2 \in BagToSet(threads') : threads' = threads (+) SetToBag({t2})
  \/ \E t \in Threads : \E t2 \in BagToSet(threads') :
        threads' = (threads (-) SetToBag({t})) (+) SetToBag({t2})

\* C5: no step of a handler, error steps included, terminates the listener
\* or touches another connection's handler: short of an interrupt the
\* listener stays serving and at most one handler changes.
C5_ErrorsContained ==
  [][(server = "serving" /\ server' # "closed") =>
       (server' = "serving" /\ OneHandlerStep)]_vars

\* one handler has ended by an exception, another has relayed a response,
\* and the listener is serving
C5_Witness ==
  /\ server = "serving"
  /\ \E t1 \in Threads : t1.pc = "crashed"
  /\ \E t2 \in Threads : t2.pc = "done" /\ t2.calls # <<>> /\ LastStatus(t2) = 200

\* C6 as stated: with a path-embedded URL and a query parameter url=A, the
\* target of the outbound call is A.
C6_QueryBeatsPath ==
  \A t \in Threads : \A i \in 1..Len(t.calls) :
    (PathEmbedded(t.req) /\ QueryUrl(t.req) # <<>>) =>
      t.calls[i].url = UpstreamUrl(t.worker, QueryUrl(t.req))

\* C6 amended: with a path-embedded URL and a query parameter url=A, the
\* target of the outbound call is the path without its leading slash.
C6_PathBeatsQuery ==
  \A t \in Threads : \A i \in 1..Len(t.calls) :
    (PathEmbedded(t.req) /\ QueryUrl(t.req) # <<>>) =>
      t.calls[i].url = UpstreamUrl(t.worker, PathUrl(t.req))

\* an outbound call for a request with both a path-embedded URL and url=A
C6_Witness ==
  \E t \in Threads :
    PathEmbedded(t.req) /\ QueryUrl(t.req) # <<>> /\ Len(t.calls) = 1

\* C7 as stated: with a query parameter url=A, a header X-Target-URL: B and
\* no path-embedded URL, the target of the outbound call is A.
C7_QueryBeatsHeader ==
  \A t \in Threads : \A i \in 1..Len(t.calls) :
    (QueryUrl(t.req) # <<>> /\ TargetHeader(t.req) # <<>> /\ ~PathEmbedded(t.req)) =>
      t.calls[i].url = UpstreamUrl(t.worker, QueryUrl(t.req))

\* C7 amended: the same for a request-target that is not in absolute form.
C7_QueryBeatsHeaderOriginForm ==
  \A t \in Threads : \A i \in 1..Len(t.calls) :
    (QueryUrl(t.req) # <<>> /\ TargetHeader(t.req) # <<>> /\ ~PathEmbedded(t.req)
       /\ ~AbsoluteForm(t.req)) =>
      t.calls[i].url = UpstreamUrl(t.worker, QueryUrl(t.req))

\* an outbound call for an origin-form request with url=A and X-Target-URL
C7_Witness ==
  \E t \in Threads :
    /\ QueryUrl(t.req) # <<>> /\ TargetHeader(t.req) # <<>>
    /\ ~PathEmbedded(t.req) /\ ~AbsoluteForm(t.req)
    /\ Len(t.calls) = 1

\* C8: without a url query parameter, a path beginning with /http:// or
\* /https:// gives the target: the path without its leading slash, also
\* when an X-Target-URL header is present.
C8_PathUrlUsed ==
  \A t \in Threads :
    (Forwarded(t) /\ PathEmbedded(t.req) /\ QueryUrl(t.req) = <<>>) =>
      /\ t.pc # "forward" => t.target = PathUrl(t.req)
      /\ \A i \in 1..Len(t.calls) : t.calls[i].url = UpstreamUrl(t.worker, PathUrl(t.req))

\* an outbound call for a path-embedded URL with X-Target-URL present
C8_Witness ==
  \E t \in Threads :
    /\ PathEmbedded(t.req) /\ QueryUrl(t.req) = <<>> /\ TargetHeader(t.req) # <<>>
    /\ Len(t.calls) = 1

\* C9: a non-CONNECT request with no url query parameter, no /http(s)://
\* path prefix and no X-Target-URL header is answered 400 with the body
\* "No target URL specified", and no endpoint is contacted for it.
C9_NoTarget400 ==
  \A t \in Threads :
    (t.req.method # "CONNECT" /\ QueryUrl(t.req) = <<>> /\ ~PathEmbedded(t.req)
       /\ TargetHeader(t.req) = <<>>) =>
      /\ t.calls = <<>>
      /\ t.pc = "done" => (LastStatus(t) = 400 /\ LastBody(t) = NoTargetBody)

\* C10: a failed outbound call is answered 502 with a body holding the
\* fields error and message, and a request makes at most one outbound call.
C10_Failure502NoRetry ==
  \A t \in Threads :
    /\ Len(t.calls) <= 1
    /\ (t.pc = "done" /\ t.calls # <<>> /\ t.uresp = NoResponse) =>
         /\ LastStatus(t) = 502
         /\ {"error", "message"} \subseteq JsonKeys(LastBody(t))

\* a request answered 502 after its one outbound call failed
C10_Witness ==
  \E t \in Threads :
    t.pc = "done" /\ Len(t.calls) = 1 /\ t.uresp = NoResponse /\ LastStatus(t) = 502

\* the header names the forwarder is to strip, in lower case
StrippedNames ==
  {"host", "connection", "proxy-connection", "keep-alive", "transfer-encoding", "upgrade"}

\* C11: the outbound call has no header named, in any case, host,
\* connection, proxy-connection, keep-alive, transfer-encoding or upgrade,
\* and every other header line of the request is on it, value unchanged.
C11_HeadersForwarded ==
  \A t \in Threads : \A i \in 1..Len(t.calls) :
    LET out == t.calls[i].headers
    IN /\ \A j \in 1..Len(out) : Lower(out[j][1]) \notin StrippedNames
       /\ \A k \in 1..Len(t.req.headers) :
            Lower(t.req.headers[k][1]) \notin StrippedNames =>
              \E j \in 1..Len(out) : out[j] = t.req.headers[k]

\* the body of a request as its framing gives it: the chunks of a chunked
\* body, else as many bytes as Content-Length says, else nothing
InboundBody(r) ==
  LET cl == HeaderGet(r.headers, "Content-Length")
  IN IF HeaderGet(r.headers, "Transfer-Encoding") = <<"chunked">> THEN r.body
     ELSE IF IsInt(cl) THEN SubSeq(r.body, 1, Min(IntOf(cl), Len(r.body)))
     ELSE <<>>

\* C12: the outbound call carries the request's method; for GET and HEAD it
\* carries no body, for every other method the request's body byte for byte.
C12_MethodAndBody ==
  \A t \in Threads : \A i \in 1..Len(t.calls) :
    /\ t.calls[i].method = t.req.method
    /\ t.req.method \in {"GET", "HEAD"} => t.calls[i].data = <<>>
    /\ t.req.method \notin {"GET", "HEAD"} => t.calls[i].data = InboundBody(t.req)

\* the header lines of hs named name, in any case
Named(hs, name) == {j \in 1..Len(hs) : Lower(hs[j][1]) = name}

\* C13: the relayed answer has the endpoint's status, every endpoint header
\* except transfer-encoding, content-encoding and content-length, exactly
\* one Content-Length, equal to the number of body bytes written, and the
\* endpoint's body.
C13_ResponseRelayed ==
  \A t \in Threads :
    (t.pc = "done" /\ t.uresp # NoResponse) =>
      LET a == t.sent[Len(t.sent)]
          u == t.uresp
      IN /\ Len(t.sent) = 1
         /\ a.status = u.status
         /\ \A k \in 1..Len(u.headers) :
              Lower(u.headers[k][1]) \notin {"transfer-encoding", "content-encoding", "content-length"}
                => \E j \in 1..Len(a.headers) : a.headers[j] = u.headers[k]
         /\ Named(a.headers, "transfer-encoding") = {}
         /\ Named(a.headers, "content-encoding") = {}
         /\ Cardinality(Named(a.headers, "content-length")) = 1
         /\ \A j \in Named(a.headers, "content-length") : a.headers[j][2] = <<Str(Len(a.content))>>
         /\ a.content = u.content

\* a relayed answer whose endpoint sent its own content-length, a
\* transfer-encoding and another header
C13_Witness ==
  \E t \in Threads :
    /\ t.pc = "done" /\ t.uresp # NoResponse
    /\ Named(t.uresp.headers, "content-length") # {}
    /\ Named(t.uresp.headers, "transfer-encoding") # {}
    /\ Named(t.uresp.headers, "x-a") # {}
    /\ t.uresp.content # <<>>

\* the request-target /?url=https://h/x&foo=1
RoundTripTarget == <<"/", "?", "url", "=", "https://", "h", "/", "x", "&", "foo", "=", "1">>

\* C14: a request with ?url=https://h/x&foo=1 makes an outbound call whose
\* target still carries foo=1, and on success the client gets the
\* endpoint's status.
C14_RoundTripKeepsFoo ==
  \A t \in Threads :
    t.req.path = RoundTripTarget =>
      /\ \A i \in 1..Len(t.calls) :
           \E j \in 1..Len(t.calls[i].url) : t.calls[i].url[j] = "foo"
      /\ (t.pc = "done" /\ t.uresp # NoResponse) => LastStatus(t) = t.uresp.status

\* C15: every request whose method is not CONNECT goes through target
\* extraction and forwarding, whatever the method; every CONNECT request
\* goes to the tunnel relay.
C15_DispatchByMethodOnly ==
  \A t \in Threads :
    /\ t.req.method # "CONNECT" =>
         /\ t.pc # "unsupported"
         /\ t.pc = "done" => LastStatus(t) \in {200, 404, 400, 502, 503}
    /\ t.req.method = "CONNECT" =>
         /\ t.pc \in {"connect", "establish", "select", "recv", "done", "crashed"}
         /\ t.calls = <<>>

\* C16: a CONNECT request makes no selection and leaves the cursor as it
\* was; it dials directly, whatever the pool holds.
C16_ConnectBypassesPool ==
  \A t \in Threads :
    t.req.method = "CONNECT" =>
      /\ state = <<>>
      /\ hist = <<>>
      /\ t.worker = ""
      /\ t.calls = <<>>
      /\ t.pc \notin {"forward", "reply400", "choose", "rr_write", "reply503", "build",
                      "relay", "reply502"}

\* a tunnel established and relaying while the pool is empty
C16_Witness ==
  /\ endpoints = <<>>
  /\ \E t \in Threads :
       /\ t.req.method = "CONNECT"
       /\ t.dials = 1
       /\ Len(t.sent) = 1 /\ LastStatus(t) = 200
       /\ t.to_client # <<>>

\* a CONNECT target without a colon, or whose port (what follows the first
\* colon) is not a number
MalformedConnectTarget(tg) ==
  \/ \A i \in 1..Len(tg) : tg[i] # ":"
  \/ \E i \in 1..Len(tg) :
       /\ tg[i] = ":"
       /\ \A j \in 1..(i - 1) : tg[j] # ":"
       /\ From(tg, i + 1) \notin {<<"0">>, <<"2">>, <<"80">>, <<"443">>}

\* C17: a CONNECT request with a malformed target is answered 400, no
\* upstream socket is opened, no success status line is sent, and it is
\* logged with 0 bytes.
C17_BadConnectTarget400 ==
  \A t \in Threads :
    (t.req.method = "CONNECT" /\ MalformedConnectTarget(t.req.path)) =>
      /\ t.dials = 0
      /\ t.upstream = "none"
      /\ \A i \in 1..Len(t.sent) : t.sent[i].status # 200
      /\ t.to_upstream = <<>> /\ t.to_client = <<>>
      /\ t.pc = "done" =>
           /\ Len(t.sent) = 1 /\ LastStatus(t) = 400
           /\ t.log = <<[status |-> 400, bytes |-> 0]>>

\* a target with a non-numeric port answered 400
C17_Witness ==
  \E t \in Threads :
    /\ t.req.path = <<"h", ":", "x">>
    /\ t.pc = "done"
    /\ LastStatus(t) = 400

\* the dial of the tunnel was made and failed
DialFailed(t) == t.req.method = "CONNECT" /\ t.dials >= 1 /\ t.upstream = "none"

\* C18: a CONNECT request whose dial fails is answered 502, no success
\* status line is sent, the relay loop is not entered, and it is logged
\* with 0 bytes.
C18_DialFailure502 ==
  \A t \in Threads :
    DialFailed(t) =>
      /\ t.dials = 1
      /\ t.pc \in {"done", "crashed"}
      /\ \A i \in 1..Len(t.sent) : t.sent[i].status # 200
      /\ t.to_upstream = <<>> /\ t.to_client = <<>> /\ t.rlist = <<>> /\ ~t.eof
      /\ t.pc = "done" =>
           /\ Len(t.sent) = 1 /\ LastStatus(t) = 502
           /\ t.log = <<[status |-> 502, bytes |-> 0]>>

\* a failed dial answered 502
C18_Witness ==
  \E t \in Threads : DialFailed(t) /\ t.pc = "done" /\ LastStatus(t) = 502

\* the first n bytes the client sent after the request head: those that
\* came along with the head, then those that came later
ClientSent(t, n) ==
  SubSeq(t.req.body \o ClientSocketBytes(0, n), 1, n)

\* C19: in a tunnel the success status line is sent before any relayed
\* byte, the bytes delivered to the upstream are a prefix of those the
\* client sent and the bytes delivered to the client are a prefix of those
\* the upstream sent.
C19_TunnelPrefixOrder ==
  \A t \in Threads :
    /\ (t.to_upstream # <<>> \/ t.to_client # <<>>) =>
         (Len(t.sent) = 1 /\ LastStatus(t) = 200)
    /\ t.to_upstream = ClientSent(t, Len(t.to_upstream))
    /\ t.to_client = UpstreamSocketBytes(0, Len(t.to_client))

\* at most one handler is alive, and once the relay loop has seen a close
\* or an error this step leaves the handler as it is or ends its thread
EndedStaysEnded ==
  \A t \in Threads :
    t.eof => (threads' = threads \/ threads' = EmptyBag)

\* C20: as soon as a read returns no data or a read or write raises, the
\* session is over: the upstream socket is closed, the handler has returned
\* (which closes the client connection), and no byte is relayed afterwards.
C20_TeardownOnClose ==
  [][/\ \A t \in Threads : t.eof => (t.pc = "done" /\ t.upstream = "closed" /\ t.rlist = <<>>)
     /\ EndedStaysEnded]_vars

\* a session ended by a close or an error after bytes went both ways
C20_Witness ==
  \E t \in Threads :
    t.eof /\ t.pc = "done" /\ t.to_upstream # <<>> /\ t.to_client # <<>>

\* the tunnel of t was established and ended by the idle timeout of select
IdleEnded(t) ==
  t.req.method = "CONNECT" /\ t.pc = "done" /\ t.upstream = "closed" /\ ~t.eof

\* C21: a tunnel whose sockets stay unreadable for the idle interval ends
\* cleanly: the upstream socket is closed, one record is logged with status
\* 200 and the count of bytes relayed to the client before the cutoff, and
\* nothing is relayed afterwards.
C21_IdleTimeoutClean ==
  [][\A t \in Threads :
       IdleEnded(t) =>
         /\ t.log = <<[status |-> 200, bytes |-> Len(t.to_client)]>>
         /\ Len(t.sent) = 1 /\ LastStatus(t) = 200
         /\ (threads' = threads \/ threads' = EmptyBag)]_vars

\* an idle end after bytes were relayed, and one with nothing relayed
C21_Witness ==
  \E t \in Threads : IdleEnded(t) /\ t.to_client # <<>> /\ t.to_upstream # <<>>

\* C22: when an established tunnel ends, its log record has status 200 and
\* a byte count equal to the bytes forwarded from the upstream to the
\* client, bytes sent towards the upstream not counted.
C22_LoggedBytesAreClientBytes ==
  \A t \in Threads :
    (t.req.method = "CONNECT" /\ t.pc = "done" /\ t.upstream = "closed") =>
      t.log = <<[status |-> 200, bytes |-> Len(t.to_client)]>>

\* the pid the marker file records, 0 when _read_pid gives none
RecordedPid == IF NotPid(read_pid(sup.file)) THEN 0 ELSE read_pid(sup.file)[1]

\* the command left the processes and the listener as they were
NothingTerminated ==
  sup'.procs = sup.procs /\ sup'.stage = sup.stage /\ server' = server /\ threads' = threads

\* C23: stop with a marker present signals the recorded pid first and removes
\* the marker only after the signal was delivered; when the process is gone
\* it reports failure and leaves marker and processes as they were, so that
\* status then reports the stale marker.
C23_StopSignalsThenRemoves ==
  [][\A u \in Users :
       (Stop(u) /\ RecordedPid # 0) =>
         /\ sup'.effects[1] = Effect("SIGTERM", RecordedPid)
         /\ sup'.file # sup.file =>
              /\ sup'.effects = <<Effect("SIGTERM", RecordedPid), Effect("unlink", 0)>>
              /\ sup'.file = <<>>
              /\ sup'.procs[RecordedPid] = "none"
              /\ sup'.out = "Server stopped"
         /\ sup.procs[RecordedPid] = "none" =>
              /\ sup'.out = "Failed to stop server"
              /\ sup'.file = sup.file
              /\ NothingTerminated
              /\ \A v \in Users : Kill(sup'.procs, v, RecordedPid) # "ok"]_vars

\* the background listener was stopped: signalled, then the marker removed
C23_Witness ==
  /\ sup.out = "Server stopped"
  /\ Len(sup.effects) = 2
  /\ sup.effects[1] = Effect("SIGTERM", sup.listener)
  /\ sup.effects[2].op = "unlink"
  /\ server = "killed" /\ sup.file = <<>>

\* C24: stop without a marker file reports that nothing runs, signals no
\* process, creates no marker and fails nothing.
C24_StopWithoutMarker ==
  [][\A u \in Users :
       (Stop(u) /\ sup.file = <<>>) =>
         /\ sup'.out = "No PID file found"
         /\ sup'.effects = <<>>
         /\ sup'.file = <<>>
         /\ NothingTerminated]_vars

\* stop found no marker while a foreground listener serves, and it serves on
C24_Witness ==
  /\ sup.out = "No PID file found"
  /\ sup.file = <<>>
  /\ server = "serving" /\ sup.procs[sup.listener] # "none"

\* C25: status reports "not running" without a marker, "running" when the
\* recorded pid is alive and the stale marker when it is not; it leaves the
\* marker unchanged and terminates nothing.
C25_StatusByLiveness ==
  [][\A u \in Users :
       Status(u) =>
         /\ sup'.out = IF sup.file = <<>> THEN "Server not running"
                       ELSE IF sup.procs[RecordedPid] # "none" THEN "Server running"
                       ELSE "PID file exists but process not running"
         /\ sup'.file = sup.file
         /\ NothingTerminated]_vars

\* C26: a background start spawns a child, writes that child's pid to the
\* marker and returns with the listener still unbound; the child has the
\* flags of a foreground run, and no step of the serving process writes
\* the marker.
C26_BackgroundStart ==
  [][/\ \A u \in Users : \A args \in ServeFlags :
          StartBackground(u, args) =>
            /\ sup.procs[sup'.listener] = "none" /\ sup'.procs[sup'.listener] = u
            /\ sup'.file = write_pid(sup'.listener)
            /\ sup'.stage = "spawned" /\ ServeMode(sup'.argv) = "run"
            /\ server' = "starting" /\ threads' = EmptyBag
            /\ sup'.effects[Len(sup'.effects)].op = "return"
     /\ (ChildMain \/ (\E ok \in BOOLEAN : ListenerBind(ok)) \/ ListenerInterrupt
           \/ ListenerExit) => sup'.file = sup.file]_vars

\* the child of a background start serves, its pid in the marker
C26_Witness ==
  /\ sup.out = "Server started in background"
  /\ sup.argv = ChildArgs
  /\ sup.stage = "running" /\ server = "serving"
  /\ sup.file = write_pid(sup.listener)

\* C27: during a run the endpoint sequence and the policy never change; the
\* cursor changes only by the store of a round-robin selection, to the
\* successor of the index that selection read, and never under the random
\* policy.
C27_PoolFixed ==
  [][/\ endpoints' = endpoints
     /\ policy' = policy
     /\ state' # state =>
          /\ policy = "roundrobin"
          /\ \E t \in Threads : t.pc = "rr_write" /\ state' = <<RRNext(endpoints, t.idx)>>
     /\ policy = "random" => state' = state]_vars

\* a round-robin selection has moved the cursor of a pool of two
C27_Witness ==
  /\ policy = "roundrobin"
  /\ Len(endpoints) = 2
  /\ state = <<1>>
  /\ \E t \in Threads : t.worker = endpoints[1].url /\ t.pc = "build"

\* handler t has not ended
Running(t) == t.pc \notin {"done", "crashed"}

\* C28: whatever the other handlers are doing, the listener can accept the
\* next connection and every handler that has not ended can take its next
\* step (a handler entering _forward waits for nothing: Extract has no
\* guard but its position).
C28_IndependentWorkers ==
  server = "serving" =>
    /\ (BagCardinality(threads) < MaxConn /\ nreq < MaxReq) => ENABLED Accept
    /\ \A t \in Threads :
         Running(t) =>
           \/ t.pc = "forward"
           \/ ENABLED (Unsupported(t) \/ Forward(t) \/ Tunnel(t))

\* one connection has been answered in full while another is still in its
\* outbound call, its response write or its tunnel's wait
C28_Witness ==
  /\ server = "serving"
  /\ \E t1 \in Threads : \E t2 \in Threads :
       /\ t1.pc \in {"build", "relay", "select", "recv"}
       /\ t2.pc = "done" /\ t2.sent # <<>> /\ LastStatus(t2) = 200
       /\ t2.req.method = "GET"

\* C29: when the bind at startup fails nothing is ever accepted or handled,
\* and the listener takes no step at all.
C29_BindFailureAborts ==
  server = "failed" =>
    /\ nreq = 0 /\ threads = EmptyBag /\ hist = <<>>
    /\ ~ENABLED (Accept \/ Serve \/ Interrupt \/ \E ok \in BOOLEAN : Bind(ok))

\* the bind failed
C29_Witness == server = "failed" /\ nreq = 0

\* C30: after an interrupt of the serving listener the socket is closed, no
\* handler runs any more, and no connection is accepted or served again.
C30_InterruptStops ==
  server = "closed" =>
    /\ threads = EmptyBag
    /\ ~ENABLED (Accept \/ Serve \/ \E ok \in BOOLEAN : Bind(ok))

\* the listener was interrupted after it had accepted a connection
C30_Witness == server = "closed" /\ nreq >= 1 /\ nreq < MaxReq

\* the urls of the pool
PoolUrls == { endpoints[i].url : i \in 1..Len(endpoints) }

\* C31: with a non-empty pool of size n the stored cursor is unset or within
\* 0..n-1 in every state, concurrent round-robin selections included, and
\* every selection returned an element of the pool.
C31_CursorInRange ==
  endpoints # <<>> =>
    /\ state = <<>> \/ state[1] \in 0..(Len(endpoints) - 1)
    /\ \A i \in 1..Len(hist) :
         hist[i].idx \in 0..(Len(endpoints) - 1) /\ hist[i].url \in PoolUrls
    /\ \A t \in Threads : t.worker # "" => t.worker \in PoolUrls

\* two round-robin selections that overlapped have both stored the cursor
C31_Witness ==
  /\ policy = "roundrobin" /\ ~serial
  /\ Len(hist) = 2 /\ state # <<>>
  /\ \A t \in Threads : t.pc # "rr_write"

\* handler t is past _choose_endpoint
Selected(t) == t.target # <<>> /\ t.pc \notin {"forward", "choose", "rr_write"}

\* C32: a non-CONNECT request selects an endpoint at most once: once when a
\* target was extracted, never when it is answered 400, which leaves the
\* cursor untouched; a request answered 502 has advanced the cursor by one;
\* the outbound call goes to the endpoint the selection returned.
C32_OneSelectionPerRequest ==
  \A t \in Threads :
    Forwarded(t) =>
      /\ Len(hist) <= 1 /\ Len(t.calls) <= 1
      /\ (t.sent # <<>> /\ LastStatus(t) = 400) =>
           hist = <<>> /\ state = <<>> /\ t.worker = "" /\ t.calls = <<>>
      /\ (Selected(t) /\ endpoints # <<>>) =>
           /\ t.worker \in PoolUrls
           /\ policy = "roundrobin" =>
                /\ Len(hist) = 1 /\ t.worker = hist[1].url
                /\ state = <<1 % Len(endpoints)>>
           /\ policy = "random" => hist = <<>> /\ state = <<>>
      /\ \A i \in 1..Len(t.calls) :
           t.calls[i].url = UpstreamUrl(t.worker, t.target) /\ t.worker \in PoolUrls

\* a request answered 502 under round-robin on a pool of two: one selection,
\* the cursor at 1, one call to the endpoint selected
C32_Witness ==
  \E t \in Threads :
    /\ Forwarded(t) /\ t.sent # <<>> /\ LastStatus(t) = 502
    /\ policy = "roundrobin" /\ Len(endpoints) = 2
    /\ state = <<1>> /\ Len(hist) = 1 /\ Len(t.calls) = 1

\* C33: the marker file, when present, holds the pid of the background
\* listener started last; a background start writes the new child's pid
\* over whatever the marker held and signals no process.
C33_MarkerHoldsLastStart ==
  [][/\ sup'.file # <<>> =>
          sup'.file = write_pid(sup'.listener) /\ sup'.argv = ChildArgs
     /\ \A u \in Users : \A args \in ServeFlags :
          StartBackground(u, args) =>
            /\ sup'.file = write_pid(sup'.listener)
            /\ \A q \in Pids \ {sup'.listener} : sup'.procs[q] = sup.procs[q]
            /\ \A i \in 1..Len(sup'.effects) : sup'.effects[i].op \notin {"SIGTERM", "signal 0"}]_vars

\* a second background start has replaced the marker while the process of
\* an earlier start is alive
C33_Witness ==
  /\ sup.out = "Server started in background"
  /\ sup.nstart = 2
  /\ sup.listener = 2 /\ sup.file = write_pid(2)
  /\ sup.procs[1] # "none" /\ sup.procs[2] # "none"

\* a tunnel is established and its relay loop runs
TunnelRunning == \E t \in Threads : t.pc \in {"select", "recv"}

\* a tunnel has ended: upstream closed, its one record printed
TunnelLogged ==
  \E t \in Threads :
    /\ t.pc = "done" /\ t.upstream = "closed" /\ t.rlist = <<>>
    /\ Len(t.sent) = 1 /\ LastStatus(t) = 200
    /\ Len(t.log) = 1 /\ t.log[1].status = 200

\* C34: every established tunnel session eventually leaves the relay loop,
\* with the upstream socket closed and its log record printed.
C34_TunnelEnds == TunnelRunning ~> TunnelLogged

\* a session that relayed in both directions has ended on a peer's close
C34_Witness ==
  \E t \in Threads :
    /\ t.pc = "done" /\ t.eof /\ Len(t.log) = 1
    /\ t.to_client # <<>> /\ t.to_upstream # <<>>

\* the path of the request's absolute-form target begins with /http:// or
\* /https://
EmbeddedInAbsolute(r) == HasPathUrl(urlparse(r.path).path)

\* C35 as stated: a request whose request-target is in absolute form is
\* forwarded with the whole request-target as its target, whatever query
\* parameter or header it carries.
C35_AbsoluteFormWhole ==
  \A t \in Threads : \A i \in 1..Len(t.calls) :
    (Forwarded(t) /\ AbsoluteForm(t.req)) =>
      t.calls[i].url = UpstreamUrl(t.worker, t.req.path)

\* C35 amended: the same for an absolute-form request-target whose path does
\* not itself begin with /http:// or /https://.
C35_AbsoluteFormUnlessEmbedded ==
  \A t \in Threads : \A i \in 1..Len(t.calls) :
    (Forwarded(t) /\ AbsoluteForm(t.req) /\ ~EmbeddedInAbsolute(t.req)) =>
      t.calls[i].url = UpstreamUrl(t.worker, t.req.path)

\* an outbound call for an absolute-form request that also carries url=A and
\* an X-Target-URL header
C35_Witness ==
  \E t \in Threads :
    /\ AbsoluteForm(t.req) /\ ~EmbeddedInAbsolute(t.req)
    /\ QueryUrl(t.req) # <<>> /\ TargetHeader(t.req) # <<>>
    /\ Len(t.calls) = 1 /\ t.target = t.req.path

====
